---- MODULE Spec2Model ----
(***************************************************************************)
(* A state-machine model of sense-voice-cpp-rs/src/lib.rs: the safe        *)
(* wrapper around the native SenseVoice inference context.                 *)
(*                                                                         *)
(*  - SenseVoiceFullParamsBuilder / SenseVoiceFullParams (pure operators,  *)
(*    exercised step by step under SpecBuilder);                           *)
(*  - SenseVoiceContext construction, use and destruction, and the five    *)
(*    native entry points (under Spec).                                    *)
(*                                                                         *)
(* Strings are sequences of bytes.  An f32 is represented by its value in  *)
(* thousandths (-1.0f32 is -1000).  A pointer is a natural number, the     *)
(* null pointer is 0.                                                      *)
(***************************************************************************)
EXTENDS Integers, Sequences, FiniteSets, TLC

VARIABLES
    wrappers,     \* slot -> [st, ctx]: the SenseVoiceContext values of the caller
    nativeAlive,  \* native contexts allocated by the native constructor and not released
    released,     \* pointer -> number of native release calls made on it
    last,         \* the last completed operation: arguments, native calls made, result
    tracked,      \* the latest full_parallel call, whether its handle was reset since,
                  \* and whether it followed a reset that followed an earlier call
    process,      \* "running", or "aborted" once native code crashed the process
    builder,      \* the SenseVoiceFullParamsBuilder in hand
    built,        \* the SenseVoiceFullParams returned by build()
    phase,        \* "idle" | "building" | "built"
    bstrategy,    \* the strategy handed to SenseVoiceFullParamsBuilder::new
    builder0,     \* the builder as returned by new()
    setLog,       \* field -> <<>> (setter never called) or <<v>> (last value passed)
    nsets,        \* number of setter calls made so far
    sample_len,   \* the length of a buffer too long to write out, as a usize
    crossing      \* what the last call on such a buffer handed to native code

vars == <<wrappers, nativeAlive, released, last, tracked, process,
          builder, built, phase, bstrategy, builder0, setLog, nsets,
          sample_len, crossing>>

ctxVars == <<wrappers, nativeAlive, released, last, tracked, process>>
builderVars == <<builder, built, phase, bstrategy, builder0, setLog, nsets>>
countVars == <<sample_len, crossing>>

(***************************************************************************)
(* Bounds of the model.                                                    *)
(***************************************************************************)
MaxContexts == 1      \* SenseVoiceContext wrappers the caller may create, and
                      \* native contexts the native allocator can hand out
MaxSamples == 2       \* longest audio buffer
MaxSetterCalls == 3   \* setter calls on one builder
MaxCores == 5         \* largest value of thread::available_parallelism()
MaxLenHigh == 4       \* buffer lengths reach (MaxLenHigh + 1) * 2^31 - 1
MaxLenLow == 5        \* low parts of a length within MaxLenLow of 0 and of 2^31 - 1

(***************************************************************************)
(* Scalars.                                                                *)
(***************************************************************************)
NULL == 0
MaxI32 == 2147483647
MinI32 == -MaxI32 - 1

Min(a, b) == IF a <= b THEN a ELSE b

\* `x as c_int` for a usize x below 2^32: the low 32 bits read as two's
\* complement, so x - 2^32 from 2^31 on.
AsCInt(x) == IF x > MaxI32 THEN (x - MaxI32 - 1) + MinI32 ELSE x

\* A usize n is written [hi, lo] with n = hi * 2^31 + lo and 0 <= lo < 2^31.
Usize(hi, lo) == [hi |-> hi, lo |-> lo]

\* `n as c_int` for a usize n: the low 32 bits, (hi % 2) * 2^31 + lo, read as
\* two's complement.
as_c_int(n) == IF n.hi % 2 = 1 THEN n.lo + MinI32 ELSE n.lo

\* "auto", "zh", and a string with an embedded NUL ("a\0b").
STR_auto == <<97, 117, 116, 111>>
STR_zh == <<122, 104>>
STR_nul == <<97, 0, 98>>

Languages == {STR_auto, STR_zh, STR_nul}
Paths == {<<109>>, <<109, 0, 120>>}

I32Values == {-1, 7}

Strategies == {"SamplingGreedy", "SamplingBeamSearch"}

\* thread::available_parallelism(): Ok(n) with n >= 1, or Err (written 0).
Parallelism == 0..MaxCores

(***************************************************************************)
(* CString::new: fails with NulError(position) when the bytes hold a 0,    *)
(* otherwise yields the bytes followed by the terminating 0.               *)
(***************************************************************************)
HasNul(s) == \E i \in 1..Len(s) : s[i] = 0

NulPosition(s) == CHOOSE i \in 1..Len(s) : s[i] = 0 /\ \A j \in 1..(i - 1) : s[j] # 0

CStringNewNoCheck(s) == [ok |-> TRUE, bytes |-> s \o <<0>>, nul_position |-> 0]

CStringNew(s) ==
    IF HasNul(s)
    THEN [ok |-> FALSE, bytes |-> <<>>, nul_position |-> NulPosition(s) - 1]
    ELSE [ok |-> TRUE, bytes |-> s \o <<0>>, nul_position |-> 0]

(***************************************************************************)
(* Results.  Ok(v) and Err(kind) / Err(GenericError(code)) are records of  *)
(* one shape; a panic (unwinding) and a process abort are outcomes too.    *)
(***************************************************************************)
Ok(v) == [kind |-> "Ok", code |-> v, text |-> <<>>]
OkString(t) == [kind |-> "Ok", code |-> 0, text |-> t]
Err(k) == [kind |-> k, code |-> 0, text |-> <<>>]
GenericError(r) == [kind |-> "GenericError", code |-> r, text |-> <<>>]
Panic == [kind |-> "Panic", code |-> 0, text |-> <<>>]
Abort == [kind |-> "Abort", code |-> 0, text |-> <<>>]
Unit == [kind |-> "Unit", code |-> 0, text |-> <<>>]
F32(v) == [kind |-> "f32", code |-> v, text |-> <<>>]

\* impl From<NulError> for SenseVoiceError, used by `?` in new_with_params.
FromNulError(e) == [kind |-> "EncodingError", code |-> e.nul_position, text |-> <<>>]

(***************************************************************************)
(* SenseVoiceFullParamsBuilder.                                            *)
(***************************************************************************)
new_no_strategy_defaults(strategy, par) ==
    [params |->
        [strategy |-> strategy,
         n_threads |-> Min(4, IF par = 0 THEN 4 ELSE par),
         language |-> STR_auto,
         n_max_text_ctx |-> 16384,
         offset_ms |-> 0,
         duration_ms |-> 0,
         no_timestamps |-> FALSE,
         single_segment |-> TRUE,
         print_progress |-> TRUE,
         print_timestamps |-> TRUE,
         debug_mode |-> FALSE,
         audio_ctx |-> 0,
         greedy |-> [best_of |-> -1],
         beam_search |-> [beam_size |-> -1]]]

new(strategy, par) ==
    LET params ==
            [strategy |-> strategy,
             n_threads |-> Min(4, IF par = 0 THEN 4 ELSE par),
             language |-> STR_auto,
             n_max_text_ctx |-> 16384,
             offset_ms |-> 0,
             duration_ms |-> 0,
             no_timestamps |-> FALSE,
             single_segment |-> TRUE,
             print_progress |-> TRUE,
             print_timestamps |-> TRUE,
             debug_mode |-> FALSE,
             audio_ctx |-> 0,
             greedy |-> [best_of |-> -1],
             beam_search |-> [beam_size |-> -1]]
    IN  CASE strategy = "SamplingGreedy" ->
                [params |-> [params EXCEPT !.greedy.best_of = 5]]
          [] strategy = "SamplingBeamSearch" ->
                [params |-> [params EXCEPT !.beam_search.beam_size = 5]]

n_threads(self, v) == [self EXCEPT !.params.n_threads = v]
language(self, v) == [self EXCEPT !.params.language = v]
n_max_text_ctx(self, v) == [self EXCEPT !.params.n_max_text_ctx = v]
offset_ms(self, v) == [self EXCEPT !.params.offset_ms = v]

duration_ms_writes_offset(self, v) == [self EXCEPT !.params.offset_ms = v]

duration_ms(self, v) == [self EXCEPT !.params.duration_ms = v]
no_timestamps(self, v) == [self EXCEPT !.params.no_timestamps = v]
single_segment(self, v) == [self EXCEPT !.params.single_segment = v]
print_progress(self, v) == [self EXCEPT !.params.print_progress = v]
print_timestamps(self, v) == [self EXCEPT !.params.print_timestamps = v]
debug_mode(self, v) == [self EXCEPT !.params.debug_mode = v]
audio_ctx(self, v) == [self EXCEPT !.params.audio_ctx = v]
greedy_best_of(self, v) == [self EXCEPT !.params.greedy.best_of = v]
beam_search_beam_size(self, v) == [self EXCEPT !.params.beam_search.beam_size = v]

build(self) == self.params

\* SenseVoiceFullParams::default_params
default_params(strategy, par) == build(new(strategy, par))

(***************************************************************************)
(* The builder, driven one call at a time.  BuilderNew is                  *)
(* SenseVoiceFullParams::builder(strategy); every setter takes the builder *)
(* by value and returns it; build() consumes it.                           *)
(***************************************************************************)
Fields ==
    {"n_threads", "language", "n_max_text_ctx", "offset_ms", "duration_ms",
     "no_timestamps", "single_segment", "print_progress", "print_timestamps",
     "debug_mode", "audio_ctx", "greedy_best_of", "beam_search_beam_size"}

NoBuilder == [params |-> <<>>]
NoParams == <<>>

BuilderIdle ==
    /\ builder = NoBuilder
    /\ built = NoParams
    /\ phase = "idle"
    /\ bstrategy = "none"
    /\ builder0 = NoBuilder
    /\ setLog = [f \in Fields |-> <<>>]
    /\ nsets = 0

BuilderNew(strategy, par) ==
    /\ phase = "idle"
    /\ builder' = new(strategy, par)
    /\ builder0' = new(strategy, par)
    /\ bstrategy' = strategy
    /\ phase' = "building"
    /\ UNCHANGED <<built, setLog, nsets>>
    /\ UNCHANGED <<ctxVars, countVars>>

Setter(field, v, result) ==
    /\ phase = "building"
    /\ nsets < MaxSetterCalls
    /\ builder' = result
    /\ setLog' = [setLog EXCEPT ![field] = <<v>>]
    /\ nsets' = nsets + 1
    /\ UNCHANGED <<built, phase, bstrategy, builder0>>
    /\ UNCHANGED <<ctxVars, countVars>>

Call_n_threads == \E v \in I32Values : Setter("n_threads", v, n_threads(builder, v))
Call_language == \E v \in Languages : Setter("language", v, language(builder, v))
Call_n_max_text_ctx ==
    \E v \in I32Values : Setter("n_max_text_ctx", v, n_max_text_ctx(builder, v))
Call_offset_ms == \E v \in I32Values : Setter("offset_ms", v, offset_ms(builder, v))
Call_duration_ms == \E v \in I32Values : Setter("duration_ms", v, duration_ms(builder, v))
Call_no_timestamps ==
    \E v \in BOOLEAN : Setter("no_timestamps", v, no_timestamps(builder, v))
Call_single_segment ==
    \E v \in BOOLEAN : Setter("single_segment", v, single_segment(builder, v))
Call_print_progress ==
    \E v \in BOOLEAN : Setter("print_progress", v, print_progress(builder, v))
Call_print_timestamps ==
    \E v \in BOOLEAN : Setter("print_timestamps", v, print_timestamps(builder, v))
Call_debug_mode == \E v \in BOOLEAN : Setter("debug_mode", v, debug_mode(builder, v))
Call_audio_ctx == \E v \in I32Values : Setter("audio_ctx", v, audio_ctx(builder, v))
Call_greedy_best_of ==
    \E v \in I32Values : Setter("greedy_best_of", v, greedy_best_of(builder, v))
Call_beam_search_beam_size ==
    \E v \in I32Values :
        Setter("beam_search_beam_size", v, beam_search_beam_size(builder, v))

Call_build ==
    /\ phase = "building"
    /\ built' = build(builder)
    /\ phase' = "built"
    /\ UNCHANGED <<builder, bstrategy, builder0, setLog, nsets>>
    /\ UNCHANGED <<ctxVars, countVars>>

(***************************************************************************)
(* SenseVoiceContextParameters.                                            *)
(***************************************************************************)
\* Default for SenseVoiceContextParameters; gpu is cfg!(feature = "_gpu").
Default(gpu) == [use_gpu |-> gpu, use_itn |-> FALSE, flash_attn |-> FALSE, gpu_device |-> 0]

use_gpu(self, v) == [self EXCEPT !.use_gpu = v]
flash_attn(self, v) == [self EXCEPT !.flash_attn = v]
gpu_device(self, v) == [self EXCEPT !.gpu_device = v]

context_to_c_struct(self) ==
    [use_gpu |-> self.use_gpu,
     use_itn |-> self.use_itn,
     flash_attn |-> self.flash_attn,
     gpu_device |-> self.gpu_device,
     cb_eval |-> "None",
     cb_eval_user_data |-> NULL]

ContextParams == {Default(FALSE), gpu_device(flash_attn(use_gpu(Default(TRUE), TRUE), TRUE), 1)}

(***************************************************************************)
(* SenseVoiceFullParams::to_c_struct.  The CString c_language is a local   *)
(* of to_c_struct: it is dropped when the function returns, so the         *)
(* language pointer of the returned struct refers to freed memory.         *)
(***************************************************************************)
StrategyAsU32(strategy) == IF strategy = "SamplingGreedy" THEN 0 ELSE 1

to_c_struct(self) ==
    LET c_language == CStringNew(self.language)
    IN  IF ~c_language.ok
        THEN [panicked |-> TRUE, c_struct |-> <<>>]
        ELSE [panicked |-> FALSE,
              c_struct |->
                [strategy |-> StrategyAsU32(self.strategy),
                 n_threads |-> self.n_threads,
                 language |-> [bytes |-> c_language.bytes, freed |-> TRUE],
                 n_max_text_ctx |-> self.n_max_text_ctx,
                 offset_ms |-> self.offset_ms,
                 duration_ms |-> self.offset_ms,
                 no_timestamps |-> self.no_timestamps,
                 single_segment |-> self.single_segment,
                 print_progress |-> self.print_progress,
                 print_timestamps |-> self.print_timestamps,
                 debug_mode |-> self.debug_mode,
                 audio_ctx |-> self.audio_ctx,
                 greedy |-> [best_of |-> self.greedy.best_of],
                 beam_search |-> [beam_size |-> self.beam_search.beam_size],
                 progress_callback |-> "None",
                 progress_callback_user_data |-> NULL]]

(***************************************************************************)
(* The caller's inputs and the native layer's answers.                     *)
(***************************************************************************)
Slots == 1..MaxContexts
Ptrs == 1..MaxContexts

SampleValues == {0}
AudioBuffers == UNION {[1..n -> SampleValues] : n \in 0..MaxSamples}

CallConfigs ==
    {default_params("SamplingGreedy", 4),
     build(duration_ms(language(new("SamplingBeamSearch", 4), STR_zh), 7)),
     build(language(new("SamplingBeamSearch", 4), STR_nul))}

\* Return codes of sense_voice_full_parallel: the documented ones and others.
RetCodes == {MinI32, -2, -1, 0, 1, 7, 8, 9}

\* Results of sense_voice_get_speech_prob, in thousandths.
ProbValues == {-1000, 250, 1000}

\* Strings sense_voice_full_get_text may point to: "", "hi", and a byte
\* sequence that is not UTF-8.
NativeTexts == {<<>>, <<104, 105>>, <<255>>}

\* CStr::to_str: the bytes are valid UTF-8 (here: ASCII) or an Utf8Error.
IsUtf8(t) == \A i \in 1..Len(t) : t[i] < 128

NoCall == <<>>

NativeCall(fn, ctx, request, n_samples, returned, text, outcome) ==
    [fn |-> fn, ctx |-> ctx, request |-> request, n_samples |-> n_samples,
     n_processors |-> IF fn \in {"sense_voice_full_parallel", "sense_voice_get_speech_prob"}
                      THEN 8 ELSE 0,
     returned |-> returned, text |-> text, outcome |-> outcome]

Op(op, slot, path, params, data, native, result) ==
    [op |-> op, slot |-> slot, path |-> path, params |-> params, data |-> data,
     native |-> native, result |-> result]

NoOp == Op("none", 0, <<>>, NoParams, <<>>, NoCall, Unit)
NoTracked ==
    [slot |-> 0, data |-> <<>>, outcome |-> "none", reset |-> FALSE, second |-> FALSE,
     first |-> "none"]

\* Success, error or panic: the class of a full_parallel outcome.
OutcomeClass(result) ==
    CASE result.kind = "Ok" -> "success"
      [] result.kind \in {"Panic", "Abort"} -> "panic"
      [] OTHER -> "error"

CtxInit ==
    /\ wrappers = [s \in Slots |-> [st |-> "none", ctx |-> NULL]]
    /\ nativeAlive = {}
    /\ released = [p \in Ptrs |-> 0]
    /\ last = NoOp
    /\ tracked = NoTracked
    /\ process = "running"

\* Lengths of audio buffers, up to the longest a 64-bit build can hold.
Lengths ==
    {Usize(hi, lo) : hi \in 0..MaxLenHigh,
                     lo \in (0..MaxLenLow) \cup {MaxI32 - k : k \in 0..MaxLenLow}}

NoCrossing == [op |-> "none", crossed |-> FALSE, n_samples |-> 0]

CountIdle ==
    /\ sample_len = Usize(0, 0)
    /\ crossing = NoCrossing

Init == CtxInit /\ BuilderIdle /\ CountIdle

Live(s) == process = "running" /\ wrappers[s].st = "live"

(***************************************************************************)
(* SenseVoiceContext::new_with_params                                      *)
(***************************************************************************)
new_with_params_result_unchecked(ctx) == Ok(ctx)

\* lines 91-95: the result built from the pointer the native constructor gave
new_with_params_result(ctx) ==
    IF ctx = NULL THEN Err("InitError") ELSE Ok(ctx)

new_with_params(s, path, parameters) ==
    /\ process = "running"
    /\ wrappers[s].st = "none"
    /\ LET path_cstr == CStringNew(path)
       IN  IF ~path_cstr.ok
           THEN /\ last' = Op("new_with_params", s, path, NoParams, <<>>, NoCall,
                              FromNulError(path_cstr))
                /\ UNCHANGED <<wrappers, nativeAlive>>
           ELSE \E ctx \in {NULL} \cup (Ptrs \ nativeAlive) :
                  LET result == new_with_params_result(ctx)
                      call == NativeCall("sense_voice_small_init_from_file_with_params",
                                         NULL,
                                         [path_model |-> path_cstr.bytes,
                                          params |-> context_to_c_struct(parameters)],
                                         0, ctx, <<>>, "returned")
                  IN  /\ nativeAlive' = IF ctx = NULL THEN nativeAlive
                                        ELSE nativeAlive \cup {ctx}
                      /\ wrappers' = IF result.kind = "Ok"
                                     THEN [wrappers EXCEPT ![s] = [st |-> "live", ctx |-> result.code]]
                                     ELSE wrappers
                      /\ last' = Op("new_with_params", s, path, NoParams, <<>>, <<call>>, result)
    /\ UNCHANGED <<released, tracked, process>>
    /\ UNCHANGED <<builderVars, countVars>>

\* <[T]>::is_empty, the guard of get_speech_prob and full_parallel
is_empty_never(data) == FALSE

is_empty(data) == Len(data) = 0

(***************************************************************************)
(* get_speech_prob                                                         *)
(***************************************************************************)
no_samples_score_zero == F32(0)

\* line 286: -1.0f32
no_samples_score == F32(-1000)

get_speech_prob(s, data) ==
    /\ Live(s)
    /\ IF is_empty(data)
       THEN last' = Op("get_speech_prob", s, <<>>, NoParams, data, NoCall, no_samples_score)
       ELSE \E ret \in ProbValues :
              last' = Op("get_speech_prob", s, <<>>, NoParams, data,
                         <<NativeCall("sense_voice_get_speech_prob", wrappers[s].ctx, <<>>,
                                      AsCInt(Len(data)), ret, <<>>, "returned")>>,
                         F32(ret))
    /\ UNCHANGED <<wrappers, nativeAlive, released, tracked, process>>
    /\ UNCHANGED <<builderVars, countVars>>

(***************************************************************************)
(* full_parallel                                                           *)
(***************************************************************************)
full_parallel_result_by_sign(ret) ==
    IF ret = 0 THEN Ok(ret)
    ELSE IF ret < 0 THEN Err("UnableToCalculateSpectrogram")
    ELSE IF ret = 7 THEN Err("FailedToEncode")
    ELSE IF ret = 8 THEN Err("FailedToDecode")
    ELSE GenericError(ret)

\* lines 313-323
full_parallel_result(ret) ==
    IF ret = -1 THEN Err("UnableToCalculateSpectrogram")
    ELSE IF ret = 7 THEN Err("FailedToEncode")
    ELSE IF ret = 8 THEN Err("FailedToDecode")
    ELSE IF ret = 0 THEN Ok(ret)
    ELSE GenericError(ret)

\* What a call of full_parallel leaves behind: its record, and the process
\* state when native code crashed.
FullParallelDone(s, params, data, native, result) ==
    /\ last' = Op("full_parallel", s, <<>>, params, data, native, result)
    /\ tracked' = LET second == tracked.slot = s /\ tracked.reset /\ tracked.data # data
                  IN  [slot |-> s,
                       data |-> data,
                       outcome |-> OutcomeClass(result),
                       reset |-> FALSE,
                       second |-> second,
                       first |-> IF second THEN tracked.outcome ELSE "none"]
    /\ process' = IF result = Abort THEN "aborted" ELSE process

\* full_parallel with a failure that sticks to the handle: once a call has
\* failed, later calls report a failure without looking at their own code.
full_parallel_sticky(s, params, data) ==
    /\ Live(s)
    /\ IF is_empty(data)
       THEN FullParallelDone(s, params, data, NoCall, Err("NoSamples"))
       ELSE LET m == to_c_struct(params)
            IN  IF m.panicked
                THEN FullParallelDone(s, params, data, NoCall, Panic)
                ELSE \E ret \in RetCodes :
                        FullParallelDone(s, params, data,
                            <<NativeCall("sense_voice_full_parallel", wrappers[s].ctx,
                                         m.c_struct, AsCInt(Len(data)), ret, <<>>,
                                         "returned")>>,
                            IF tracked.slot = s /\ tracked.outcome = "error"
                            THEN Err("FailedToDecode")
                            ELSE full_parallel_result(ret))
    /\ UNCHANGED <<wrappers, nativeAlive, released>>
    /\ UNCHANGED <<builderVars, countVars>>

full_parallel(s, params, data) ==
    /\ Live(s)
    /\ IF is_empty(data)
       THEN FullParallelDone(s, params, data, NoCall, Err("NoSamples"))
       ELSE LET m == to_c_struct(params)
            IN  IF m.panicked
                THEN FullParallelDone(s, params, data, NoCall, Panic)
                ELSE \/ \E ret \in RetCodes :
                          FullParallelDone(s, params, data,
                              <<NativeCall("sense_voice_full_parallel", wrappers[s].ctx,
                                           m.c_struct, AsCInt(Len(data)), ret, <<>>,
                                           "returned")>>,
                              full_parallel_result(ret))
                     \* the request's language pointer is dangling: reading it
                     \* is undefined, and may bring the process down
                     \/ /\ m.c_struct.language.freed
                        /\ FullParallelDone(s, params, data,
                              <<NativeCall("sense_voice_full_parallel", wrappers[s].ctx,
                                           m.c_struct, AsCInt(Len(data)), 0, <<>>,
                                           "crashed")>>,
                              Abort)
    /\ UNCHANGED <<wrappers, nativeAlive, released>>
    /\ UNCHANGED <<builderVars, countVars>>

(***************************************************************************)
(* full_get_text                                                           *)
(***************************************************************************)
full_get_text(s, need_prefix) ==
    /\ Live(s)
    /\ \/ last' = Op("full_get_text", s, <<>>, NoParams, <<>>,
                     <<NativeCall("sense_voice_full_get_text", wrappers[s].ctx,
                                  [need_prefix |-> need_prefix], 0, NULL, <<>>, "returned")>>,
                     Err("NullPointer"))
       \/ \E t \in NativeTexts :
            last' = Op("full_get_text", s, <<>>, NoParams, <<>>,
                       <<NativeCall("sense_voice_full_get_text", wrappers[s].ctx,
                                    [need_prefix |-> need_prefix], 0, 1, t, "returned")>>,
                       IF IsUtf8(t) THEN OkString(t) ELSE Panic)
    /\ UNCHANGED <<wrappers, nativeAlive, released, tracked, process>>
    /\ UNCHANGED <<builderVars, countVars>>

(***************************************************************************)
(* reset_ctx_state                                                         *)
(***************************************************************************)
reset_ctx_state(s) ==
    /\ Live(s)
    /\ last' = Op("reset_ctx_state", s, <<>>, NoParams, <<>>,
                  <<NativeCall("sense_voice_reset_ctx_state", wrappers[s].ctx, <<>>, 0, 0,
                               <<>>, "returned")>>,
                  Unit)
    /\ tracked' = IF tracked.slot = s THEN [tracked EXCEPT !.reset = TRUE] ELSE tracked
    /\ UNCHANGED <<wrappers, nativeAlive, released, process>>
    /\ UNCHANGED <<builderVars, countVars>>

(***************************************************************************)
(* The end of a SenseVoiceContext's life.  The struct holds a raw pointer  *)
(* and the crate has no `impl Drop for SenseVoiceContext`: dropping the    *)
(* wrapper runs no code and makes no native call.                          *)
(***************************************************************************)
drop(s) ==
    /\ Live(s)
    /\ wrappers' = [wrappers EXCEPT ![s].st = "dropped"]
    /\ last' = Op("drop", s, <<>>, NoParams, <<>>, NoCall, Unit)
    /\ UNCHANGED <<nativeAlive, released, tracked, process>>
    /\ UNCHANGED <<builderVars, countVars>>

(***************************************************************************)
(* The guard and the sample count of get_speech_prob and full_parallel on  *)
(* a buffer known by its length alone: `data.is_empty()` decides whether   *)
(* native code is entered, and `data.len() as c_int` is the count it gets. *)
(***************************************************************************)
usize_is_zero(n) == n.hi = 0 /\ n.lo = 0

SampleCount(op, n) ==
    IF usize_is_zero(n)
    THEN [op |-> op, crossed |-> FALSE, n_samples |-> 0]
    ELSE [op |-> op, crossed |-> TRUE, n_samples |-> as_c_int(n)]

get_speech_prob_count ==
    /\ \E n \in Lengths :
            /\ sample_len' = n
            /\ crossing' = SampleCount("get_speech_prob", n)
    /\ UNCHANGED <<ctxVars, builderVars>>

full_parallel_count ==
    /\ \E n \in Lengths :
            /\ sample_len' = n
            /\ crossing' = SampleCount("full_parallel", n)
    /\ UNCHANGED <<ctxVars, builderVars>>

NextCount == get_speech_prob_count \/ full_parallel_count

SpecCount == Init /\ [][NextCount]_vars

Next ==
    \/ \E s \in Slots, path \in Paths, parameters \in ContextParams :
            new_with_params(s, path, parameters)
    \/ \E s \in Slots, data \in AudioBuffers : get_speech_prob(s, data)
    \/ \E s \in Slots, params \in CallConfigs, data \in AudioBuffers :
            full_parallel(s, params, data)
    \/ \E s \in Slots, need_prefix \in BOOLEAN : full_get_text(s, need_prefix)
    \/ \E s \in Slots : reset_ctx_state(s)
    \/ \E s \in Slots : drop(s)

Spec == Init /\ [][Next]_vars

NextBuilder ==
    \/ \E strategy \in Strategies, par \in Parallelism : BuilderNew(strategy, par)
    \/ Call_n_threads
    \/ Call_language
    \/ Call_n_max_text_ctx
    \/ Call_offset_ms
    \/ Call_duration_ms
    \/ Call_no_timestamps
    \/ Call_single_segment
    \/ Call_print_progress
    \/ Call_print_timestamps
    \/ Call_debug_mode
    \/ Call_audio_ctx
    \/ Call_greedy_best_of
    \/ Call_beam_search_beam_size
    \/ Call_build

SpecBuilder == Init /\ [][NextBuilder]_vars

(***************************************************************************)
(* Properties.                                                             *)
(***************************************************************************)
ContainsNul(bytes) == \E i \in DOMAIN bytes : bytes[i] = 0

\* The native call of the last operation returned (it did not crash).
NativeReturned == Len(last.native) = 1 /\ last.native[1].outcome = "returned"

\* C1: full_parallel on an empty audio buffer returns Err(NoSamples) and makes
\* no native call, whatever the handle and the call configuration.
C1_EmptyAudioNoSamples ==
    (last.op = "full_parallel" /\ Len(last.data) = 0) =>
        /\ last.result = [kind |-> "NoSamples", code |-> 0, text |-> <<>>]
        /\ last.native = <<>>

C1_Witness ==
    /\ last.op = "full_parallel"
    /\ Len(last.data) = 0
    /\ ContainsNul(last.params.language)

\* C2: for a non-empty buffer, the code sense_voice_full_parallel returned is
\* mapped by exact lookup: -1, 7, 8 to their errors, 0 to Ok(0), any other r
\* to GenericError(r).
C2_ReturnCodeLookup ==
    (last.op = "full_parallel" /\ Len(last.data) > 0 /\ NativeReturned) =>
        LET r == last.native[1].returned
        IN  /\ r = -1 => last.result = [kind |-> "UnableToCalculateSpectrogram", code |-> 0, text |-> <<>>]
            /\ r = 7 => last.result = [kind |-> "FailedToEncode", code |-> 0, text |-> <<>>]
            /\ r = 8 => last.result = [kind |-> "FailedToDecode", code |-> 0, text |-> <<>>]
            /\ r = 0 => last.result = [kind |-> "Ok", code |-> 0, text |-> <<>>]
            /\ r \notin {-1, 0, 7, 8} =>
                    last.result = [kind |-> "GenericError", code |-> r, text |-> <<>>]

C2_Witness ==
    /\ last.op = "full_parallel"
    /\ NativeReturned
    /\ last.native[1].returned = -2
    /\ last.result.kind = "GenericError"
    /\ last.result.code = -2

\* C3 (as claimed): the native context of a wrapper has been released exactly
\* once when the wrapper is destroyed, and not at all while it is live.
C3_ReleasedExactlyOnce ==
    \A s \in Slots :
        /\ wrappers[s].st = "dropped" => released[wrappers[s].ctx] = 1
        /\ wrappers[s].st = "live" => released[wrappers[s].ctx] = 0

\* C4: new_with_params on a path with an embedded NUL fails with the encoding
\* error, makes no native call and leaves no wrapper.
C4_NulPathRejected ==
    (last.op = "new_with_params" /\ ContainsNul(last.path)) =>
        /\ last.result.kind = "EncodingError"
        /\ last.native = <<>>
        /\ wrappers[last.slot].st = "none"

C4_Witness ==
    /\ last.op = "new_with_params"
    /\ ContainsNul(last.path)
    /\ last.result.kind # "Ok"

\* C5: on a NUL-free path new_with_params calls the native constructor exactly
\* once, returns Err(InitError) exactly when it returned null, and otherwise a
\* wrapper holding the pointer returned; no wrapper holds a null pointer.
C5_InitErrorIffNull ==
    /\ (last.op = "new_with_params" /\ ~ContainsNul(last.path)) =>
            /\ Len(last.native) = 1
            /\ last.native[1].fn = "sense_voice_small_init_from_file_with_params"
            /\ (last.result = [kind |-> "InitError", code |-> 0, text |-> <<>>])
                    <=> (last.native[1].returned = 0)
            /\ last.native[1].returned = 0 => wrappers[last.slot].st = "none"
            /\ last.native[1].returned # 0 =>
                    /\ last.result.kind = "Ok"
                    /\ wrappers[last.slot] = [st |-> "live", ctx |-> last.native[1].returned]
    /\ \A s \in Slots : wrappers[s].st # "none" => wrappers[s].ctx # 0

C5_Witness ==
    /\ last.op = "new_with_params"
    /\ ~ContainsNul(last.path)
    /\ last.native[1].returned = 0
    /\ last.result.kind = "InitError"

\* C8: get_speech_prob returns -1.0 without a native call on an empty buffer;
\* on a non-empty one it calls sense_voice_get_speech_prob once and returns
\* what it returned.
C8_SpeechProbSentinel ==
    last.op = "get_speech_prob" =>
        IF Len(last.data) = 0
        THEN /\ last.result = [kind |-> "f32", code |-> -1000, text |-> <<>>]
             /\ last.native = <<>>
        ELSE /\ Len(last.native) = 1
             /\ last.native[1].fn = "sense_voice_get_speech_prob"
             /\ last.result = [kind |-> "f32", code |-> last.native[1].returned, text |-> <<>>]

C8_Witness ==
    /\ last.op = "get_speech_prob"
    /\ Len(last.data) = 0
    /\ last.result.code = -1000

\* C9 (as claimed): a language with an embedded NUL makes full_parallel on a
\* non-empty buffer return the encoding error, without a native call.
C9_NulLanguageIsEncodingError ==
    (last.op = "full_parallel" /\ Len(last.data) > 0 /\ ContainsNul(last.params.language)) =>
        /\ last.result.kind = "EncodingError"
        /\ last.native = <<>>

\* C10: a full_parallel call made after reset_ctx_state that followed an
\* earlier call on the same handle with other audio has the outcome its own
\* native return code gives, whatever the earlier outcome was; the wrapper is
\* the same before and after, and reset_ctx_state returns nothing and can be
\* called on a live handle at any time.
C10_ResetIsolation ==
    /\ (last.op = "full_parallel" /\ tracked.second /\ Len(last.data) > 0 /\ NativeReturned) =>
            LET r == last.native[1].returned
            IN  /\ last.result.kind =
                        CASE r = -1 -> "UnableToCalculateSpectrogram"
                          [] r = 7 -> "FailedToEncode"
                          [] r = 8 -> "FailedToDecode"
                          [] r = 0 -> "Ok"
                          [] OTHER -> "GenericError"
                /\ last.result.code = IF r \in {-1, 7, 8} THEN 0 ELSE r
                /\ last.native[1].ctx = wrappers[last.slot].ctx
    /\ last.op = "reset_ctx_state" => last.result.kind = "Unit"
    /\ \A s \in Slots :
            (process = "running" /\ wrappers[s].st = "live") => ENABLED reset_ctx_state(s)

C10_Witness ==
    /\ last.op = "full_parallel"
    /\ tracked.second
    /\ tracked.first = "error"
    /\ Len(last.data) > 0
    /\ NativeReturned
    /\ last.result.kind = "Ok"

\* A field of a SenseVoiceFullParams, by the name of its setter.
Field(p, f) ==
    CASE f = "n_threads" -> p.n_threads
      [] f = "language" -> p.language
      [] f = "n_max_text_ctx" -> p.n_max_text_ctx
      [] f = "offset_ms" -> p.offset_ms
      [] f = "duration_ms" -> p.duration_ms
      [] f = "no_timestamps" -> p.no_timestamps
      [] f = "single_segment" -> p.single_segment
      [] f = "print_progress" -> p.print_progress
      [] f = "print_timestamps" -> p.print_timestamps
      [] f = "debug_mode" -> p.debug_mode
      [] f = "audio_ctx" -> p.audio_ctx
      [] f = "greedy_best_of" -> p.greedy.best_of
      [] f = "beam_search_beam_size" -> p.beam_search.beam_size

FieldsSet == {f \in Fields : setLog[f] # <<>>}

\* C6: with neither sub-parameter setter called, a greedy configuration has
\* best_of 5 and beam_size -1, a beam-search one beam_size 5 and best_of -1.
C6_StrategyDefaults ==
    (phase = "built" /\ setLog["greedy_best_of"] = <<>>
                     /\ setLog["beam_search_beam_size"] = <<>>) =>
        /\ bstrategy = "SamplingGreedy" =>
                built.greedy.best_of = 5 /\ built.beam_search.beam_size = -1
        /\ bstrategy = "SamplingBeamSearch" =>
                built.beam_search.beam_size = 5 /\ built.greedy.best_of = -1

C6_Witness ==
    /\ phase = "built"
    /\ bstrategy = "SamplingBeamSearch"
    /\ FieldsSet = {"n_threads", "language"}
    /\ built.greedy.best_of = -1

\* C7: after any sequence of setter calls, build() is possible and returns a
\* configuration in which every field holds the last value passed to its
\* setter, or the value new() gave it when its setter was never called, and
\* whose strategy is the one given to new().
C7_LastWriteWins ==
    /\ phase = "building" => ENABLED Call_build
    /\ phase = "built" =>
            /\ \A f \in Fields :
                    Field(built, f) = IF setLog[f] = <<>> THEN Field(builder0.params, f)
                                      ELSE setLog[f][1]
            /\ built.strategy = bstrategy

C7_Witness ==
    /\ phase = "built"
    /\ nsets >= 3
    /\ FieldsSet = {"duration_ms", "language"}
    /\ built.duration_ms = 7
    /\ built.offset_ms = 0

\* The request handed to sense_voice_full_parallel by the last operation.
Request == last.native[1].request

ReachedFullParallel ==
    /\ last.op = "full_parallel"
    /\ Len(last.native) = 1
    /\ last.native[1].fn = "sense_voice_full_parallel"

\* C11 (as claimed): the request marshalled by to_c_struct carries every
\* field of the call configuration unchanged, duration_ms included.
C11_RequestCarriesConfiguration ==
    ReachedFullParallel =>
        /\ Request.n_threads = last.params.n_threads
        /\ Request.n_max_text_ctx = last.params.n_max_text_ctx
        /\ Request.offset_ms = last.params.offset_ms
        /\ Request.duration_ms = last.params.duration_ms
        /\ Request.no_timestamps = last.params.no_timestamps
        /\ Request.single_segment = last.params.single_segment
        /\ Request.print_progress = last.params.print_progress
        /\ Request.print_timestamps = last.params.print_timestamps
        /\ Request.debug_mode = last.params.debug_mode
        /\ Request.audio_ctx = last.params.audio_ctx
        /\ Request.greedy.best_of = last.params.greedy.best_of
        /\ Request.beam_search.beam_size = last.params.beam_search.beam_size

\* C12 (as claimed): while sense_voice_full_parallel runs, the encoded copy
\* of the language that the request's language pointer refers to is still
\* allocated.
C12_LanguageCopyOutlivesCall ==
    ReachedFullParallel => ~Request.language.freed

\* C13 (as claimed): whenever full_parallel or get_speech_prob enters native
\* code, the sample count it passes is strictly positive and is the length
\* of the buffer.
C13_CountIsPositiveLength ==
    crossing.crossed =>
        /\ crossing.n_samples > 0
        /\ sample_len.hi = 0
        /\ crossing.n_samples = sample_len.lo

====
